---------------------------- MODULE Spec2Model ----------------------------
(***************************************************************************)
(* A model of dirmon (src/main.go): the three analysis entry points        *)
(* findDuplicateFiles, analyzeDiskUsage and provideCleanupAdvice, the      *)
(* confirm-and-delete operation deleteFile, and the list of monitored      *)
(* directories under addDirectory and removeDirectory, over a small        *)
(* filesystem.                                                             *)
(*                                                                         *)
(* Strings are tuples of one-character strings, so that ToLower, HasSuffix,*)
(* HasPrefix, Contains and filepath.Ext are computed, not assumed.  A path *)
(* is a tuple of names (its elements below the filesystem root); every     *)
(* path of the model is absolute and clean.                                *)
(***************************************************************************)
EXTENDS Integers, Sequences, FiniteSets, TLC

VARIABLES
    fs,        \* the filesystem: absolute path -> entry
    in,        \* what the user gives the run: the path argument, the two
               \* thresholds, the file to delete, the line typed at a prompt
    dup,       \* what the last findDuplicateFiles printed and returned
    usage,     \* what the last analyzeDiskUsage printed and returned
    advice,    \* what the last provideCleanupAdvice printed and returned
    del,       \* what the last deleteFile did
    last,      \* the operation that ran, and the filesystem it started from
    MonitoredDirs,  \* appConfig.MonitoredDirs
    configFile      \* what the config file holds of it

vars == <<fs, in, dup, usage, advice, del, last, MonitoredDirs, configFile>>

-----------------------------------------------------------------------------
(* Strings                                                                 *)

UpperCs == <<"A","B","C","D","E","F","G","H","I","J","K","L","M",
             "N","O","P","Q","R","S","T","U","V","W","X","Y","Z">>

LowerCs == <<"a","b","c","d","e","f","g","h","i","j","k","l","m",
             "n","o","p","q","r","s","t","u","v","w","x","y","z">>

\* The characters of the model in byte order (Go compares strings bytewise).
Ascii == <<".", "0","1","2","3","4","5","6","7","8","9">> \o UpperCs
         \o <<"_">> \o LowerCs \o <<"~">>

Ord(c) == CHOOSE i \in 1..Len(Ascii) : Ascii[i] = c

ToLowerChar(c) ==
    IF \E i \in 1..Len(UpperCs) : UpperCs[i] = c
    THEN LowerCs[CHOOSE i \in 1..Len(UpperCs) : UpperCs[i] = c]
    ELSE c

\* strings.ToLower
ToLower(s) == [i \in 1..Len(s) |-> ToLowerChar(s[i])]

\* strings.HasPrefix
HasPrefix(s, p) == Len(s) >= Len(p) /\ SubSeq(s, 1, Len(p)) = p

\* strings.HasSuffix
HasSuffix(s, p) ==
    Len(s) >= Len(p) /\ SubSeq(s, Len(s) - Len(p) + 1, Len(s)) = p

\* strings.Contains
Contains(s, p) ==
    \E i \in 1..(Len(s) - Len(p) + 1) : SubSeq(s, i, i + Len(p) - 1) = p

\* s < t, bytewise (the order sort.Strings gives the names of a directory)
StrLess(s, t) ==
    \E i \in 1..(Len(t)) :
        /\ \A j \in 1..(i - 1) : j <= Len(s) /\ s[j] = t[j]
        /\ \/ i = Len(s) + 1
           \/ i <= Len(s) /\ Ord(s[i]) < Ord(t[i])

-----------------------------------------------------------------------------
(* Paths                                                                   *)

Dot == <<".">>

\* The working directory of the process.
Cwd == << <<"w">> >>

\* A relative path starts with the element "."; anything else is absolute.
IsRel(p) == Len(p) > 0 /\ p[1] = Dot

\* filepath.Abs, and what the kernel does with a relative path
Abs(p) == IF IsRel(p) THEN Cwd \o Tail(p) ELSE p

\* filepath.Join(path, name) for a clean path and a plain name
Join(p, name) == Append(p, name)

\* filepath.Dir
Dir(p) == IF Len(p) = 0 THEN p ELSE SubSeq(p, 1, Len(p) - 1)

\* filepath.Base
Base(p) == p[Len(p)]

\* filepath.Ext: the suffix of the last element from its final dot, "" if none
Ext(p) ==
    LET b == Base(p)
        dots == {i \in 1..Len(b) : b[i] = "."}
    IN IF dots = {} THEN <<>>
       ELSE SubSeq(b, CHOOSE i \in dots : \A j \in dots : j <= i, Len(b))

-----------------------------------------------------------------------------
(* The filesystem: a function from absolute paths to entries               *)
(*   kind   "file", "dir" or "link" (a symbolic link to a file)            *)
(*   size   what lstat reports: a file's length, a link's text length      *)
(*   cid    a file's content, one of the contents of that length           *)
(*   mode   file: "r" readable, "-" not; dir: "rx" list and search,        *)
(*          "r" list only, "-" neither                                     *)
(*   target the absolute path a link resolves to                           *)
(*   mtime  modification time, in hours                                    *)

Nil == "nil"

FileEntry(size, cid, mode, mtime) ==
    [kind |-> "file", size |-> size, cid |-> cid, mode |-> mode,
     target |-> <<>>, mtime |-> mtime]

DirEntry(mode) ==
    [kind |-> "dir", size |-> 1, cid |-> 0, mode |-> mode,
     target |-> <<>>, mtime |-> 0]

LinkEntry(size, target, mtime) ==
    [kind |-> "link", size |-> size, cid |-> 0, mode |-> "r",
     target |-> target, mtime |-> mtime]

\* Every directory above a (absolute) exists and may be searched.
Searchable(f, a) ==
    \A k \in 1..(Len(a) - 1) :
        LET d == SubSeq(a, 1, k)
        IN d \in DOMAIN f /\ f[d].kind = "dir" /\ f[d].mode = "rx"

\* os.Lstat: the error
LstatErr(f, p) ==
    LET a == Abs(p)
    IN IF ~Searchable(f, a) THEN
           IF \E k \in 1..(Len(a) - 1) : SubSeq(a, 1, k) \notin DOMAIN f
           THEN "ENOENT" ELSE "EACCES"
       ELSE IF a \notin DOMAIN f THEN "ENOENT"
       ELSE Nil

\* os.Lstat: the FileInfo (of the entry itself, a link is not followed)
Lstat(f, p) ==
    LET e == f[Abs(p)]
    IN [isDir |-> e.kind = "dir", size |-> e.size, mtime |-> e.mtime]

\* The entry a path names once a final symbolic link is followed.
Follow(f, p) ==
    LET a == Abs(p)
    IN IF f[a].kind = "link" THEN f[a].target ELSE a

\* os.Stat: the error (a link is followed)
StatErr(f, p) ==
    IF LstatErr(f, p) # Nil THEN LstatErr(f, p)
    ELSE LstatErr(f, Follow(f, p))

\* os.Stat: the FileInfo of what the path resolves to
Stat(f, p) == Lstat(f, Follow(f, p))

\* os.Open for reading: the error
OpenErr(f, p) ==
    IF StatErr(f, p) # Nil THEN StatErr(f, p)
    ELSE IF f[Follow(f, p)].mode \notin {"r", "rx"} THEN "EACCES"
    ELSE Nil

\* The names in a directory.
Names(f, a) == {Base(q) : q \in {q \in DOMAIN f : Len(q) = Len(a) + 1 /\ Dir(q) = a}}

\* The names of a set, in increasing byte order (sort.Strings)
RECURSIVE SortNames(_)
SortNames(S) ==
    IF S = {} THEN <<>>
    ELSE LET m == CHOOSE x \in S : \A y \in S \ {x} : StrLess(x, y)
         IN <<m>> \o SortNames(S \ {m})

\* Reading a directory (readDirNames of filepath.Walk, os.ReadDir): the error
ReadDirErr(f, p) ==
    IF StatErr(f, p) # Nil THEN StatErr(f, p)
    ELSE IF f[Follow(f, p)].kind # "dir" THEN "ENOTDIR"
    ELSE IF f[Follow(f, p)].mode \notin {"r", "rx"} THEN "EACCES"
    ELSE Nil

\* Reading a directory: its names, sorted
ReadDirNames(f, p) == SortNames(Names(f, Abs(p)))

-----------------------------------------------------------------------------
(* filepath.Walk                                                           *)
(* The walk is the sequence of calls it makes to its callback, each        *)
(* [path, err, info], and the error it returns.  onErr is what the         *)
(* callback returns when it is handed an error; both callbacks of the      *)
(* program return nil when they are handed none, and neither returns       *)
(* SkipDir.                                                                *)

Errs == {"ENOENT", "EACCES", "ENOTDIR"}

NoInfo == [isDir |-> FALSE, size |-> 0, mtime |-> 0]

Call(f, p, err) ==
    [path |-> p, err |-> err,
     info |-> IF LstatErr(f, p) = Nil THEN Lstat(f, p) ELSE NoInfo]

RECURSIVE WalkDir(_, _, _), WalkNames(_, _, _, _)

\* walk(path, info, walkFn) of path/filepath
WalkDir(f, p, onErr) ==
    IF ~Lstat(f, p).isDir THEN [calls |-> <<Call(f, p, Nil)>>, err |-> Nil]
    ELSE LET err  == ReadDirErr(f, p)
             err1 == IF err = Nil THEN Nil ELSE onErr[err]
         IN IF err # Nil \/ err1 # Nil
            THEN [calls |-> <<Call(f, p, err)>>, err |-> err1]
            ELSE LET r == WalkNames(f, p, ReadDirNames(f, p), onErr)
                 IN [calls |-> <<Call(f, p, Nil)>> \o r.calls, err |-> r.err]

\* the loop of walk over the sorted names of a directory
WalkNames(f, p, names, onErr) ==
    IF names = <<>> THEN [calls |-> <<>>, err |-> Nil]
    ELSE LET filename == Join(p, Head(names))
             lerr == LstatErr(f, filename)
         IN IF lerr # Nil
            THEN IF onErr[lerr] # Nil
                 THEN [calls |-> <<Call(f, filename, lerr)>>, err |-> onErr[lerr]]
                 ELSE LET r == WalkNames(f, p, Tail(names), onErr)
                      IN [calls |-> <<Call(f, filename, lerr)>> \o r.calls,
                          err |-> r.err]
            ELSE LET d == WalkDir(f, filename, onErr)
                 IN IF d.err # Nil THEN d
                    ELSE LET r == WalkNames(f, p, Tail(names), onErr)
                         IN [calls |-> d.calls \o r.calls, err |-> r.err]

\* filepath.Walk(root, fn)
Walk(f, p, onErr) ==
    IF LstatErr(f, p) # Nil
    THEN [calls |-> <<Call(f, p, LstatErr(f, p))>>, err |-> onErr[LstatErr(f, p)]]
    ELSE WalkDir(f, p, onErr)

-----------------------------------------------------------------------------
(* Helpers on sequences and maps                                           *)

Range(q) == {q[i] : i \in 1..Len(q)}

\* The orders in which a Go map with key set S may be ranged over.
Orders(S) ==
    {o \in [1..Cardinality(S) -> S] : \A i, j \in 1..Cardinality(S) : o[i] = o[j] => i = j}

RECURSIVE SumSeq(_)
SumSeq(q) == IF q = <<>> THEN 0 ELSE Head(q) + SumSeq(Tail(q))

RECURSIVE Flatten(_)
Flatten(qq) == IF qq = <<>> THEN <<>> ELSE Head(qq) \o Flatten(Tail(qq))

-----------------------------------------------------------------------------
(* calculateMD5                                                            *)

\* The bytes os.Open and io.Copy read: the content of what the path resolves
\* to, a byte string given by its length and which one of that length it is.
Content(f, p) ==
    LET e == f[Follow(f, p)] IN [len |-> e.size, cid |-> e.cid]

\* md5.Sum, hex encoded.  Equal contents have equal digests; contents 0 and 2
\* of one length are a colliding pair; digests of different lengths differ.
MD5(c) == <<"md5", c.len, c.cid % 2>>

CalculateMD5(f, p) ==
    IF OpenErr(f, p) # Nil
    THEN [hash |-> <<>>, err |-> OpenErr(f, p)]
    ELSE [hash |-> MD5(Content(f, p)), err |-> Nil]

-----------------------------------------------------------------------------
(* findDuplicateFiles                                                      *)

\* the walk callback: handed an error, it returns it
DupWalkFn(err) == err

\* the walk callback: the files it appends to filesBySize, in call order
DupWalked(calls) ==
    SelectSeq(calls, LAMBDA c : c.err = Nil /\ ~c.info.isDir)

\* filesBySize after the walk: size -> paths, in discovery order
FilesBySize(calls) ==
    LET w == DupWalked(calls)
    IN [s \in {w[i].info.size : i \in 1..Len(w)} |->
           LET b == SelectSeq(w, LAMBDA c : c.info.size = s)
           IN [i \in 1..Len(b) |-> b[i].path]]

\* Promoted without the test `size > 0`
MutPromoted(size, files) == Len(files) > 1

\* the condition under which a bucket is hashed
Promoted(size, files) == Len(files) > 1 /\ size > 0

\* the files calculateMD5 is called on, in the order of the calls, when the
\* buckets are ranged over in the order `order`
ToHash(bySize, order) ==
    Flatten([i \in 1..Len(order) |->
                IF Promoted(order[i], bySize[order[i]])
                THEN bySize[order[i]] ELSE <<>>])

\* the files whose hash failed (each printed as a warning)
HashFailed(f, files) == SelectSeq(files, LAMBDA p : CalculateMD5(f, p).err # Nil)

\* DuplicateGroups without the `continue` of the error branch: a file whose
\* hash failed is appended under the empty hash calculateMD5 returned
MutDuplicateGroups(f, files) ==
    [h \in {CalculateMD5(f, files[i]).hash : i \in 1..Len(files)} |->
        SelectSeq(files, LAMBDA p : CalculateMD5(f, p).hash = h)]

\* duplicateGroups after the second pass: hash -> paths, in hashing order
DuplicateGroups(f, files) ==
    LET ok == SelectSeq(files, LAMBDA p : CalculateMD5(f, p).err = Nil)
    IN [h \in {CalculateMD5(f, ok[i]).hash : i \in 1..Len(ok)} |->
           SelectSeq(ok, LAMBDA p : CalculateMD5(f, p).hash = h)]

\* IsDuplicateGroup as `len(files) > 0` would have it
MutIsDuplicateGroup(files) == Len(files) > 0

\* whether a group is counted as a duplicate group
IsDuplicateGroup(files) == Len(files) > 1

\* the wasted space printed for a group
WastedSpace(f, files) == Stat(f, files[1]).size * (Len(files) - 1)

\* The display loop over duplicateGroups ranged over in the order gorder;
\* `gone` are the paths os.Stat fails on at that time.  st is
\* [count, total, listed].
RECURSIVE Display(_, _, _, _, _)
Display(f, groups, gorder, gone, st) ==
    IF gorder = <<>> THEN st
    ELSE LET hash  == Head(gorder)
             files == groups[hash]
         IN IF ~IsDuplicateGroup(files)
            THEN Display(f, groups, Tail(gorder), gone, st)
            ELSE LET count == st.count + 1
                 IN IF files[1] \in gone \/ StatErr(f, files[1]) # Nil
                    THEN Display(f, groups, Tail(gorder), gone,
                                 [st EXCEPT !.count = count])
                    ELSE LET wasted == WastedSpace(f, files)
                         IN Display(f, groups, Tail(gorder), gone,
                                [count  |-> count,
                                 total  |-> st.total + wasted,
                                 listed |-> Append(st.listed,
                                     [num |-> count, hash |-> hash,
                                      wasted |-> wasted, files |-> files])])

NoDup ==
    [status |-> "none", err |-> Nil, bySize |-> <<>>, hashed |-> <<>>,
     warned |-> <<>>, listed |-> <<>>, count |-> 0, total |-> 0,
     summary |-> "none"]

-----------------------------------------------------------------------------
(* analyzeDiskUsage                                                        *)

\* the walk callback: handed an error, it returns nil ("skip files we can't
\* access")
UsageWalkFn(err) == Nil

\* UsageCounted without the test `!info.IsDir()`
MutUsageCounted(calls, absPath) ==
    SelectSeq(calls, LAMBDA c : c.err = Nil /\ c.path # absPath)

\* the walk callback: the calls that reach the accounting, in call order
UsageCounted(calls, absPath) ==
    SelectSeq(calls, LAMBDA c : c.err = Nil /\ c.path # absPath /\ ~c.info.isDir)

NoExt == <<"[no extension]">>

\* the key of typeStats a file is added to
TypeKey(filePath) ==
    LET ext == ToLower(Ext(filePath)) IN IF ext = <<>> THEN NoExt ELSE ext

\* the key of dirStats a file is added to
DirKey(filePath) == Dir(filePath)

\* typeStats after the walk
TypeStats(counted) ==
    [k \in {TypeKey(counted[i].path) : i \in 1..Len(counted)} |->
        LET b == SelectSeq(counted, LAMBDA c : TypeKey(c.path) = k)
        IN SumSeq([i \in 1..Len(b) |-> b[i].info.size])]

\* dirStats after the walk
DirStats(counted) ==
    [k \in {DirKey(counted[i].path) : i \in 1..Len(counted)} |->
        LET b == SelectSeq(counted, LAMBDA c : DirKey(c.path) = k)
        IN SumSeq([i \in 1..Len(b) |-> b[i].info.size])]

\* totalSize after the walk
TotalSize(counted) == SumSeq([i \in 1..Len(counted) |-> counted[i].info.size])

\* SizeGreater as a less function that sorts ascending
MutSizeGreater(a, b) == a.size < b.size

\* The less function of both sort.Slice calls: descending by size.
SizeGreater(a, b) == a.size > b.size

\* What sort.Slice may leave of the entries `keys` of a map ranged over in
\* any order: every order of them in which no entry precedes one it is less
\* than.  (The first entry is one that none is greater than.)
RECURSIVE SortedFrom(_, _)
SortedFrom(stats, keys) ==
    IF keys = {} THEN {<<>>}
    ELSE UNION {{<<[key |-> k, size |-> stats[k]]>> \o rest :
                    rest \in SortedFrom(stats, keys \ {k})} :
                k \in {k \in keys :
                         \A j \in keys : ~SizeGreater([size |-> stats[j]],
                                                      [size |-> stats[k]])}}

SortedLists(stats) == SortedFrom(stats, DOMAIN stats)

\* how many directories the listing shows
TopDirs == 10

\* the label printed for the root, as a path of one name
RootLabel == << <<"[root directory]">> >>

\* filepath.Rel(absPath, dir) for a directory at or below absPath, and the
\* label printed for "."
RelLabel(absPath, dir) ==
    IF dir = absPath THEN RootLabel
    ELSE SubSeq(dir, Len(absPath) + 1, Len(dir))

\* DirLines with the loop left on `count > 10`
MutDirLines(absPath, dirList) ==
    [i \in 1..(IF Len(dirList) < TopDirs + 1 THEN Len(dirList)
               ELSE TopDirs + 1) |->
        [dir |-> RelLabel(absPath, dirList[i].key), size |-> dirList[i].size]]

\* the directory lines printed: the loop breaks once TopDirs are printed
DirLines(absPath, dirList) ==
    [i \in 1..(IF Len(dirList) < TopDirs THEN Len(dirList) ELSE TopDirs) |->
        [dir |-> RelLabel(absPath, dirList[i].key), size |-> dirList[i].size]]

NoUsage ==
    [status |-> "none", err |-> Nil, counted |-> <<>>, total |-> 0,
     typeStats |-> <<>>, dirStats |-> <<>>, typeLines |-> <<>>,
     dirLines |-> <<>>]

\* analyzeDiskUsage(path): what it returns and prints, typeList and dirList
\* being the two sorted slices
AnalyzeDiskUsageResult(f, path, typeList, dirList) ==
    LET absPath == Abs(path)
        w == Walk(f, absPath, [e \in Errs |-> UsageWalkFn(e)])
    IN IF w.err # Nil
       THEN [NoUsage EXCEPT !.status = "error", !.err = w.err]
       ELSE LET counted == UsageCounted(w.calls, absPath)
            IN [status |-> "ok", err |-> Nil,
                counted |-> [i \in 1..Len(counted) |-> counted[i].path],
                total |-> TotalSize(counted),
                typeStats |-> TypeStats(counted),
                dirStats |-> DirStats(counted),
                typeLines |-> typeList,
                dirLines |-> DirLines(absPath, dirList)]

\* the walk of analyzeDiskUsage, for the choice of the two slices
UsageWalk(f, path) ==
    LET absPath == Abs(path)
    IN UsageCounted(Walk(f, absPath, [e \in Errs |-> UsageWalkFn(e)]).calls, absPath)

-----------------------------------------------------------------------------
(* provideCleanupAdvice                                                    *)

isTempFile(filename) ==
    LET lowerName == ToLower(filename)
    IN \/ HasSuffix(lowerName, <<".","t","m","p">>)
       \/ HasSuffix(lowerName, <<".","t","e","m","p">>)
       \/ HasPrefix(lowerName, <<"~">>)
       \/ HasPrefix(lowerName, <<"t","e","m","p","_">>)
       \/ Contains(lowerName, <<"c","a","c","h","e">>)
       \/ HasSuffix(lowerName, <<".","b","a","k">>)

isLogFile(filename) ==
    LET lowerName == ToLower(filename)
    IN \/ HasSuffix(lowerName, <<".","l","o","g">>)
       \/ HasSuffix(lowerName, <<".","l","o","g",".","g","z">>)
       \/ HasSuffix(lowerName, <<".","l","o","g","s">>)
       \/ Contains(lowerName, <<"d","e","b","u","g">>)

\* Time is counted in hours: time.Hour is one unit.
Hour == 1

\* time.Duration is a signed integer of DurBits bits (64 in Go, over
\* nanoseconds; the model keeps the wrap-around at a width TLC can compute).
DurBits == 16

\* Go's int and int64, likewise narrowed.
IntBits == 30

RECURSIVE Pow2(_)
Pow2(n) == IF n = 0 THEN 1 ELSE 2 * Pow2(n - 1)

\* a product or sum as a signed integer of `bits` bits holds it
Wrap(x, bits) ==
    ((x + Pow2(bits - 1)) % Pow2(bits)) - Pow2(bits - 1)

MiB == 1024 * 1024

\* ageThresholdDuration := time.Duration(ageThreshold*24) * time.Hour
AgeThresholdDuration(ageThreshold) ==
    Wrap(Wrap(ageThreshold * 24, IntBits) * Hour, DurBits)

\* SizeThresholdBytes with the threshold taken as KiB
MutSizeThresholdBytes(sizeThreshold) == Wrap(sizeThreshold * 1024, IntBits)

\* sizeThresholdBytes := int64(sizeThreshold * 1024 * 1024)
SizeThresholdBytes(sizeThreshold) == Wrap(sizeThreshold * MiB, IntBits)

\* now.Sub(info.ModTime())
FileAge(now, mtime) == now - mtime

\* int(fileAge.Hours()/24): the division truncates toward zero
AgeDays(fileAge) ==
    IF fileAge >= 0 THEN fileAge \div (24 * Hour)
    ELSE -((-fileAge) \div (24 * Hour))

\* Reason with the age and size rules tried before the name rules
MutReason(name, fileAge, size, ageThresholdDuration, sizeThresholdBytes) ==
    IF fileAge > ageThresholdDuration /\ size > 0 THEN "Not modified for days"
    ELSE IF size > sizeThresholdBytes THEN "Large file"
    ELSE IF isTempFile(name) THEN "Temporary file"
    ELSE IF isLogFile(name) THEN "Log file"
    ELSE ""

\* the if / else-if chain that sets reason
Reason(name, fileAge, size, ageThresholdDuration, sizeThresholdBytes) ==
    IF isTempFile(name) THEN "Temporary file"
    ELSE IF isLogFile(name) THEN "Log file"
    ELSE IF fileAge > ageThresholdDuration /\ size > 0 THEN "Not modified for days"
    ELSE IF size > sizeThresholdBytes THEN "Large file"
    ELSE ""

\* the entries of the directory the loop gets past its two `continue`s with
CleanupEvaluated(f, path) ==
    SelectSeq(ReadDirNames(f, path),
              LAMBDA n : /\ f[Join(Abs(path), n)].kind # "dir"
                         /\ LstatErr(f, Join(path, n)) = Nil)

\* the lines printed, one per file with a reason, in directory order
Candidates(f, path, now, ageThreshold, sizeThreshold) ==
    LET names == CleanupEvaluated(f, path)
        line(n) ==
            LET info == Lstat(f, Join(path, n))
                fileAge == FileAge(now, info.mtime)
            IN [path |-> Join(path, n), name |-> n, size |-> info.size,
                mtime |-> info.mtime, days |-> AgeDays(fileAge),
                reason |-> Reason(n, fileAge, info.size,
                                  AgeThresholdDuration(ageThreshold),
                                  SizeThresholdBytes(sizeThreshold))]
    IN SelectSeq([i \in 1..Len(names) |-> line(names[i])],
                 LAMBDA c : c.reason # "")

\* fmt.Scanln(&response): the first word of the line typed, "" if none
Scanln(line) == IF line = <<>> THEN <<>> ELSE Head(line)

\* Confirmed as a prompt with the default yes would have it
MutConfirmed(response) == ToLower(response) # <<"n">>

\* the condition under which the files are deleted
Confirmed(response) ==
    ToLower(response) = <<"y">> \/ ToLower(response) = <<"y","e","s">>

\* os.Remove of a file or link: the error
RemoveErr(f, p) == LstatErr(f, p)

\* os.Remove: the filesystem afterwards
Remove(f, p) ==
    IF RemoveErr(f, p) # Nil THEN f
    ELSE [q \in DOMAIN f \ {Abs(p)} |-> f[q]]

\* the deletion loop over recommendedFiles
RECURSIVE RemoveAll(_, _)
RemoveAll(f, paths) ==
    IF paths = <<>> THEN f ELSE RemoveAll(Remove(f, Head(paths)), Tail(paths))

NoAdvice ==
    [status |-> "none", err |-> Nil, evaluated |-> <<>>, candidates |-> <<>>,
     savings |-> 0, asked |-> FALSE, response |-> <<>>, deleted |-> <<>>]

\* provideCleanupAdvice(path, ageThreshold, sizeThreshold): what it returns
\* and prints, `line` being what is typed at the prompt if there is one
ProvideCleanupAdviceResult(f, path, now, ageThreshold, sizeThreshold, line) ==
    IF ReadDirErr(f, path) # Nil
    THEN [NoAdvice EXCEPT !.status = "error", !.err = ReadDirErr(f, path)]
    ELSE LET cands == Candidates(f, path, now, ageThreshold, sizeThreshold)
             recommendedFiles == [i \in 1..Len(cands) |-> cands[i].path]
             base == [NoAdvice EXCEPT
                        !.status = "ok",
                        !.evaluated = [i \in 1..Len(CleanupEvaluated(f, path)) |->
                                         Join(path, CleanupEvaluated(f, path)[i])],
                        !.candidates = cands,
                        !.savings = SumSeq([i \in 1..Len(cands) |-> cands[i].size])]
         IN IF Len(recommendedFiles) = 0 THEN base
            ELSE [base EXCEPT
                    !.asked = TRUE,
                    !.response = Scanln(line),
                    !.deleted = IF Confirmed(Scanln(line))
                                THEN recommendedFiles ELSE <<>>]

\* the filesystem provideCleanupAdvice leaves
ProvideCleanupAdviceFs(f, r) == RemoveAll(f, r.deleted)

-----------------------------------------------------------------------------
(* deleteFile                                                              *)

NoDel ==
    [status |-> "none", err |-> Nil, path |-> <<>>, asked |-> FALSE,
     response |-> <<>>, removed |-> FALSE]

\* deleteFile(path): what it returns, `line` being what is typed at the prompt
DeleteFileResult(f, path, line) ==
    IF StatErr(f, path) # Nil
    THEN [NoDel EXCEPT !.status = "error", !.err = StatErr(f, path), !.path = path]
    ELSE IF Stat(f, path).isDir
    THEN [NoDel EXCEPT !.status = "error", !.err = "is a directory", !.path = path]
    ELSE IF ~Confirmed(Scanln(line))
    THEN [NoDel EXCEPT !.status = "ok", !.path = path, !.asked = TRUE,
                       !.response = Scanln(line)]
    ELSE [NoDel EXCEPT !.status = IF RemoveErr(f, path) # Nil THEN "error" ELSE "ok",
                       !.err = RemoveErr(f, path),
                       !.path = path, !.asked = TRUE, !.response = Scanln(line),
                       !.removed = RemoveErr(f, path) = Nil]

\* the filesystem deleteFile leaves
DeleteFileFs(f, r) == IF r.removed THEN Remove(f, r.path) ELSE f

-----------------------------------------------------------------------------
(* addDirectory, removeDirectory and saveConfig                            *)

\* the config file holding the list `dirs`, and a file a failed write left
\* truncated
Saved(dirs) == [whole |-> TRUE, dirs |-> dirs]
Truncated == [whole |-> FALSE, dirs |-> <<>>]

\* saveConfig: the error of os.WriteFile and the file afterwards.  The write
\* succeeds, or fails before the file is opened, or fails after it was
\* truncated.
SaveConfig(dirs, file) ==
    {[err |-> Nil, file |-> Saved(dirs)],
     [err |-> "EACCES", file |-> file],
     [err |-> "EIO", file |-> Truncated]}

\* AlreadyMonitored comparing the path as it was typed
MutAlreadyMonitored(dirs, path, absPath) ==
    \E i \in 1..Len(dirs) : dirs[i] = path

\* the loop of addDirectory over appConfig.MonitoredDirs
AlreadyMonitored(dirs, path, absPath) ==
    \E i \in 1..Len(dirs) : dirs[i] = absPath

\* addDirectory(path), `save` being what its saveConfig does: the error
\* returned, the list and the config file afterwards
AddDirectoryResult(f, dirs, file, path, save) ==
    LET absPath == Abs(path)
    IN IF StatErr(f, absPath) # Nil
       THEN [err |-> StatErr(f, absPath), dirs |-> dirs, file |-> file]
       ELSE IF ~Stat(f, absPath).isDir
       THEN [err |-> "is not a directory", dirs |-> dirs, file |-> file]
       ELSE IF AlreadyMonitored(dirs, path, absPath)
       THEN [err |-> Nil, dirs |-> dirs, file |-> file]
       ELSE [err |-> save.err, dirs |-> Append(dirs, absPath),
             file |-> save.file]

Digits == <<"0", "1", "2", "3", "4", "5", "6", "7", "8", "9">>

DigitVal(c) == (CHOOSE i \in 1..Len(Digits) : Digits[i] = c) - 1

\* the value of a run of digits
RECURSIVE Decimal(_)
Decimal(ds) ==
    IF ds = <<>> THEN 0
    ELSE 10 * Decimal(SubSeq(ds, 1, Len(ds) - 1)) + DigitVal(ds[Len(ds)])

\* fmt.Scanln(&choice) for an int that is 0 before: an optional sign and
\* the digits that follow are read and stored, whatever comes after them;
\* without a digit nothing is stored
ScanInt(word) ==
    LET signed == word # <<>> /\ word[1] \in {"+", "-"}
        rest == IF signed THEN Tail(word) ELSE word
        n == CHOOSE n \in 0..Len(rest) :
                /\ \A i \in 1..n : \E d \in 1..Len(Digits) : rest[i] = Digits[d]
                /\ n < Len(rest) =>
                      ~\E d \in 1..Len(Digits) : rest[n + 1] = Digits[d]
        v == Decimal(SubSeq(rest, 1, n))
    IN IF signed /\ word[1] = "-" THEN -v ELSE v

\* RemoveAt with the index taken from 0
MutRemoveAt(dirs, choice) ==
    SubSeq(dirs, 1, choice) \o SubSeq(dirs, choice + 2, Len(dirs))

\* append(MonitoredDirs[:choice-1], MonitoredDirs[choice:]...)
RemoveAt(dirs, choice) ==
    SubSeq(dirs, 1, choice - 1) \o SubSeq(dirs, choice + 1, Len(dirs))

\* removeDirectory(), `line` being the line typed and `save` what its
\* saveConfig does
RemoveDirectoryResult(dirs, file, line, save) ==
    IF Len(dirs) = 0
    THEN [err |-> Nil, asked |-> FALSE, choice |-> 0, dirs |-> dirs,
          file |-> file]
    ELSE LET choice == ScanInt(Scanln(line))
         IN IF choice <= 0 \/ choice > Len(dirs)
            THEN [err |-> Nil, asked |-> TRUE, choice |-> choice,
                  dirs |-> dirs, file |-> file]
            ELSE [err |-> save.err, asked |-> TRUE, choice |-> choice,
                  dirs |-> RemoveAt(dirs, choice), file |-> save.file]

-----------------------------------------------------------------------------
(* The filesystems and inputs the operations are run on                    *)
(*                                                                         *)
(*   /w            the working directory                                   *)
(*   /w/r          the directory analysed, holding                         *)
(*   /w/r/a.txt    /w/r/b.TXT    /w/r/s/    /w/r/s/e    /w/r/s/f.log       *)
(*   /w/nx         never exists                                            *)

\* the largest file length, in bytes
MaxSize == 2

NW == <<"w">>
NR == <<"r">>
NX == <<"n","x">>
NA == <<"a",".","t","x","t">>
NB == <<"b",".","T","X","T">>
NS == <<"s">>
NE == <<"e">>
NF == <<"f",".","l","o","g">>

PW == <<NW>>
PR == <<NW, NR>>
PA == <<NW, NR, NA>>
PB == <<NW, NR, NB>>
PS == <<NW, NR, NS>>
PE == <<NW, NR, NS, NE>>
PF == <<NW, NR, NS, NF>>

\* the current time, in hours
Now == 24 * 2000

Absent ==
    [kind |-> "absent", size |-> 0, cid |-> 0, mode |-> "-",
     target |-> <<>>, mtime |-> 0]

\* the filesystem holding the entries of `pairs` that are not Absent
MkFs(pairs) ==
    [p \in {pr[1] : pr \in {pr \in pairs : pr[2].kind # "absent"}} |->
        (CHOOSE pr \in pairs : pr[1] = p)[2]]

\* the path arguments: the directory by its absolute and by its relative
\* path, and a path that does not exist
RootArgs == {PR, <<Dot, NR>>, <<NW, NX>>}

\* regular files of the lengths 1..MaxSize with the contents `cids`
Files(cids, mtime) ==
    {FileEntry(n, c, "r", mtime) : n \in 1..MaxSize, c \in cids}

\* an empty regular file
Empty(mtime) == FileEntry(0, 0, "r", mtime)

\* symbolic links to /w/r/a.txt whose text is 1 or 2 bytes long
Links(mtime) == {LinkEntry(n, PA, mtime) : n \in {1, 2}}

\* the modes of r, s and a.txt: at most one of them is not the usual one
Modes ==
    {<<"rx", "rx", "r">>, <<"-", "rx", "r">>, <<"r", "rx", "r">>,
     <<"rx", "-", "r">>, <<"rx", "r", "r">>, <<"rx", "rx", "-">>}

Trees ==
    {MkFs({<<PW, DirEntry("rx")>>, <<PR, DirEntry(m[1])>>,
           <<PS, DirEntry(m[2])>>,
           <<PA, IF a.kind = "file" THEN [a EXCEPT !.mode = m[3]] ELSE a>>,
           <<PB, b>>, <<PE, e>>, <<PF, g>>}) :
        m \in Modes,
        a \in {Absent, Empty(Now - 24)} \cup Files({0, 1}, Now - 24),
        b \in {Absent} \cup Files({0}, Now - 24) \cup Links(Now - 24),
        e \in Files({0, 1}, Now - 24) \cup Links(Now - 24),
        g \in {Absent, Empty(Now - 24)} \cup Files({0, 2}, Now - 24)}

\* the defaults of the two thresholds (the flags --age and --size)
DefaultAge == 90
DefaultSize == 100

Y   == <<"y">>
YES == <<"y","e","s">>

\* the lines typed at a confirmation prompt, as their words
Lines ==
    {<<>>, <<Y>>, << <<"Y">> >>, <<YES>>, << <<"Y","E","S">> >>,
     << <<"Y","e","s">> >>, << <<"n">> >>, << <<"n","o">> >>,
     << <<"y","e">> >>, << <<"n","o">>, YES >>}

Inputs(paths, ages, sizes, files, lines) ==
    [path : paths, age : ages, size : sizes, file : files, line : lines]

NoLast == [op |-> "none", fs |-> <<>>]

\* no directory is monitored and the config file says so
NoDirs == MonitoredDirs = <<>> /\ configFile = Saved(<<>>)

Blank ==
    /\ dup = NoDup /\ usage = NoUsage /\ advice = NoAdvice /\ del = NoDel
    /\ last = NoLast

\* A run over the small trees, with the default thresholds: every tree by
\* its absolute path, the trees without b.TXT and f.log by every path.
Init ==
    /\ \/ /\ fs \in Trees
          /\ in \in Inputs({PR}, {DefaultAge}, {DefaultSize}, {PA}, {<<Y>>})
       \/ /\ fs \in {t \in Trees : PB \notin DOMAIN t /\ PF \notin DOMAIN t}
          /\ in \in Inputs(RootArgs, {DefaultAge}, {DefaultSize}, {PA}, {<<Y>>})
    /\ Blank /\ NoDirs

\* The names the cleanup rules are tried on: one per pattern of isTempFile
\* and isLogFile, in either case, one matching both and one matching none.
CleanupNames ==
    {<<"a",".","t","m","p">>, <<"A",".","T","E","M","P">>, <<"~","a">>,
     <<"T","e","m","p","_","a">>, <<"m","y","C","a","c","h","e","1">>,
     <<"a",".","b","a","k">>, <<"a",".","l","o","g">>,
     <<"a",".","L","O","G",".","g","z">>, <<"a",".","l","o","g","s">>,
     <<"D","e","b","u","g","1">>, <<"c","a","c","h","e",".","l","o","g">>,
     <<"a",".","t","x","t">>, <<"t","m","p">>}

\* file lengths around the size thresholds, in bytes
CleanupSizes == {0, 1, 50 * MiB, 100 * MiB + 1}

\* file ages around the age thresholds, in hours
CleanupAges == {0, 10 * 24, 90 * 24, 90 * 24 + 1, 1000 * 24}

\* /w/r holding one file of CleanupNames, b.TXT (a day old, one byte) and
\* s/f.log
CleanupTrees ==
    {MkFs({<<PW, DirEntry("rx")>>, <<PR, DirEntry("rx")>>,
           <<PS, DirEntry("rx")>>,
           <<Join(PR, n), FileEntry(z, 0, "r", Now - age)>>,
           <<PB, FileEntry(1, 0, "r", Now - 24)>>,
           <<PF, FileEntry(1, 0, "r", Now - 24)>>}) :
        n \in CleanupNames, z \in CleanupSizes, age \in CleanupAges}

\* a cleanup or a deletion in one of the cleanup trees: the file to delete
\* is one in /w/r or the directory s
InitCleanup ==
    /\ fs \in CleanupTrees
    /\ in \in Inputs({PR}, {0, DefaultAge}, {0, DefaultSize},
                     {PS} \cup {Join(PR, n) : n \in CleanupNames}, Lines)
    /\ in.file \in DOMAIN fs
    /\ Blank /\ NoDirs

\* The least number of days whose hours do not fit a Duration, and the
\* least number of MiB whose bytes do not fit an int.
WrapAge == Pow2(DurBits - 1) \div (24 * Hour) + 1
WrapSize == Pow2(IntBits - 1) \div MiB

\* a cleanup with thresholds of any sign and up to those that overflow; the
\* answer to the prompt is no
InitAdvice ==
    /\ fs \in CleanupTrees
    /\ in \in Inputs({PR}, {-1, 0, DefaultAge, WrapAge},
                     {-1, 0, DefaultSize, WrapSize}, {PB}, {<< <<"n">> >>})
    /\ Blank /\ NoDirs

\* One directory more than the listing shows.
WideDirs == TopDirs + 1

\* the name of the i-th subdirectory of a wide tree
WideName(i) == <<LowerCs[i]>>

\* the file of the i-th subdirectory: x.go in the first five, x.md in the
\* others
WideFile(i) ==
    IF i <= 5 THEN <<"x", ".", "g", "o">> ELSE <<"x", ".", "m", "d">>

\* /w/r holding a.txt of one byte and WideDirs subdirectories of one file
\* each, the i-th of i bytes but for one of them, of any size up to
\* WideDirs + 1: the totals of at most three directories are equal.
WideTrees ==
    {MkFs({<<PW, DirEntry("rx")>>, <<PR, DirEntry("rx")>>,
           <<PA, FileEntry(1, 0, "r", Now - 24)>>}
          \cup {<<Join(PR, WideName(i)), DirEntry("rx")>> : i \in 1..WideDirs}
          \cup {<<Join(Join(PR, WideName(i)), WideFile(i)),
                  FileEntry(IF i = j THEN v ELSE i, 0, "r", Now - 24)>> :
                   i \in 1..WideDirs}) :
        j \in 1..WideDirs, v \in 1..(WideDirs + 1)}

\* analyzeDiskUsage on a wide tree
InitWide ==
    /\ fs \in WideTrees
    /\ in \in Inputs({PR}, {DefaultAge}, {DefaultSize}, {PA}, {<<Y>>})
    /\ Blank /\ NoDirs

\* analyzeDiskUsage on a small or on a wide tree
InitUsage == Init \/ InitWide

\* /w, /w/r and /w/r/s, and the file /w/r/a.txt
ConfigTree ==
    MkFs({<<PW, DirEntry("rx")>>, <<PR, DirEntry("rx")>>,
          <<PS, DirEntry("rx")>>, <<PA, FileEntry(1, 0, "r", Now - 24)>>})

\* the paths typed to addDirectory: the three directories, two of them by
\* a relative path too, a file and a path that does not exist
AddArgs == {PW, PR, PS, <<Dot>>, <<Dot, NR>>, PA, <<NW, NX>>}

\* the lines typed to removeDirectory
ChoiceLines ==
    {<<>>, << <<"0">> >>, << <<"1">> >>, << <<"2">> >>, << <<"3">> >>,
     << <<"4">> >>, << <<"-", "1">> >>, << <<"+", "2">> >>, << <<"x">> >>,
     << <<"2", "x">> >>, << <<"1", "0">> >>, << <<"1">>, <<"2">> >>}

\* the program with a list of monitored directories without duplicates,
\* as the config file holds it
InitConfig ==
    /\ fs = ConfigTree
    /\ in \in Inputs({PR}, {DefaultAge}, {DefaultSize}, {PA}, {<<Y>>})
    /\ Blank
    /\ MonitoredDirs \in {<<>>, <<PS, PW>>}
    /\ configFile = Saved(MonitoredDirs)

-----------------------------------------------------------------------------
(* The operations.  A run of the program executes one command.             *)

\* The keys of filesBySize whose bucket is hashed and the keys of
\* duplicateGroups whose group is counted: where the other keys come up in
\* the range over the map changes nothing, so only these are ordered.
PromotedKeys(bySize) == {k \in DOMAIN bySize : Promoted(k, bySize[k])}

DuplicateKeys(groups) == {h \in DOMAIN groups : IsDuplicateGroup(groups[h])}

\* the paths os.Stat may fail on when the groups are displayed: none, or the
\* first file of one group (removed by another process since it was hashed)
GoneSets(groups) ==
    {{}} \cup {{groups[h][1]} : h \in {h \in DOMAIN groups : Len(groups[h]) > 1}}

FindDuplicateFiles ==
    /\ last.op = "none"
    /\ LET w == Walk(fs, in.path, [e \in Errs |-> DupWalkFn(e)])
       IN IF w.err # Nil
          THEN dup' = [NoDup EXCEPT !.status = "error", !.err = w.err]
          ELSE LET bySize == FilesBySize(w.calls)
               IN \E order \in Orders(PromotedKeys(bySize)) :
                    LET files  == ToHash(bySize, order)
                        groups == DuplicateGroups(fs, files)
                    IN \E gorder \in Orders(DuplicateKeys(groups)) :
                       \E gone \in GoneSets(groups) :
                         LET st == Display(fs, groups, gorder, gone,
                                      [count |-> 0, total |-> 0,
                                       listed |-> <<>>])
                         IN dup' =
                             [status |-> "ok", err |-> Nil,
                              bySize |-> bySize, hashed |-> files,
                              warned |-> HashFailed(fs, files),
                              listed |-> st.listed, count |-> st.count,
                              total |-> st.total,
                              summary |->
                                 IF st.count = 0
                                 THEN "No duplicate files found."
                                 ELSE "Found groups of duplicate files"]
    /\ last' = [op |-> "findDuplicateFiles", fs |-> fs]
    /\ UNCHANGED <<fs, in, usage, advice, del, MonitoredDirs, configFile>>

AnalyzeDiskUsage ==
    /\ last.op = "none"
    /\ LET counted == UsageWalk(fs, in.path)
       IN \E typeList \in SortedLists(TypeStats(counted)) :
          \E dirList \in SortedLists(DirStats(counted)) :
             usage' = AnalyzeDiskUsageResult(fs, in.path, typeList, dirList)
    /\ last' = [op |-> "analyzeDiskUsage", fs |-> fs]
    /\ UNCHANGED <<fs, in, dup, advice, del, MonitoredDirs, configFile>>

\* analyzeDiskUsage run once more on the tree it has just reported on; the
\* output of the run before is kept in `last`
AnalyzeDiskUsageAgain ==
    /\ last.op = "analyzeDiskUsage"
    /\ LET counted == UsageWalk(fs, in.path)
       IN \E typeList \in SortedLists(TypeStats(counted)) :
          \E dirList \in SortedLists(DirStats(counted)) :
             usage' = AnalyzeDiskUsageResult(fs, in.path, typeList, dirList)
    /\ last' = [op |-> "analyzeDiskUsageAgain", fs |-> fs, usage |-> usage]
    /\ UNCHANGED <<fs, in, dup, advice, del, MonitoredDirs, configFile>>

ProvideCleanupAdvice ==
    /\ last.op = "none"
    /\ advice' = ProvideCleanupAdviceResult(fs, in.path, Now, in.age, in.size,
                                            in.line)
    /\ fs' = ProvideCleanupAdviceFs(fs, advice')
    /\ last' = [op |-> "provideCleanupAdvice", fs |-> fs]
    /\ UNCHANGED <<in, dup, usage, del, MonitoredDirs, configFile>>

DeleteFile ==
    /\ last.op = "none"
    /\ del' = DeleteFileResult(fs, in.file, in.line)
    /\ fs' = DeleteFileFs(fs, del')
    /\ last' = [op |-> "deleteFile", fs |-> fs]
    /\ UNCHANGED <<in, dup, usage, advice, MonitoredDirs, configFile>>

\* addDirectory(path), from the menu or the command line
AddDirectory ==
    \E path \in AddArgs :
    \E save \in SaveConfig(Append(MonitoredDirs, Abs(path)), configFile) :
        LET r == AddDirectoryResult(fs, MonitoredDirs, configFile, path, save)
        IN /\ MonitoredDirs' = r.dirs
           /\ configFile' = r.file
           /\ last' = [op |-> "addDirectory", fs |-> fs, path |-> path,
                       err |-> r.err, dirs |-> MonitoredDirs,
                       file |-> configFile]
           /\ UNCHANGED <<fs, in, dup, usage, advice, del>>

\* removeDirectory(), the line typed being `line`
RemoveDirectory ==
    \E line \in ChoiceLines :
        LET choice == ScanInt(Scanln(line))
            left == IF choice <= 0 \/ choice > Len(MonitoredDirs)
                    THEN MonitoredDirs ELSE RemoveAt(MonitoredDirs, choice)
        IN \E save \in SaveConfig(left, configFile) :
             LET r == RemoveDirectoryResult(MonitoredDirs, configFile, line,
                                            save)
             IN /\ MonitoredDirs' = r.dirs
                /\ configFile' = r.file
                /\ last' = [op |-> "removeDirectory", fs |-> fs,
                            choice |-> r.choice, asked |-> r.asked,
                            err |-> r.err, dirs |-> MonitoredDirs,
                            file |-> configFile]
                /\ UNCHANGED <<fs, in, dup, usage, advice, del>>

Next ==
    \/ FindDuplicateFiles
    \/ AnalyzeDiskUsage
    \/ ProvideCleanupAdvice
    \/ DeleteFile

Spec == Init /\ [][Next]_vars

\* findDuplicateFiles alone
NextDup == FindDuplicateFiles

SpecDup == Init /\ [][NextDup]_vars

\* analyzeDiskUsage alone
NextUsage == AnalyzeDiskUsage

SpecUsage == Init /\ [][NextUsage]_vars

\* the cleanup advice and the deletion of one file
NextCleanup ==
    \/ ProvideCleanupAdvice
    \/ DeleteFile

SpecCleanup == InitCleanup /\ [][NextCleanup]_vars

\* the list of monitored directories under any sequence of additions and
\* removals
NextConfig ==
    \/ AddDirectory
    \/ RemoveDirectory

SpecConfig == InitConfig /\ [][NextConfig]_vars

\* provideCleanupAdvice alone, over thresholds of any size
NextAdvice == ProvideCleanupAdvice

SpecAdvice == InitAdvice /\ [][NextAdvice]_vars

\* analyzeDiskUsage run twice on one tree
NextUsageTwice ==
    \/ AnalyzeDiskUsage
    \/ AnalyzeDiskUsageAgain

SpecUsageTwice == InitUsage /\ [][NextUsageTwice]_vars

-----------------------------------------------------------------------------
(* What the properties are stated over                                     *)

\* the sum of a function's values
RECURSIVE SumOver(_, _)
SumOver(S, g) ==
    IF S = {} THEN 0
    ELSE LET x == CHOOSE x \in S : TRUE IN g[x] + SumOver(S \ {x}, g)

\* the files a walk of `path` can reach: the entries below it other than
\* directories, every directory from the top down to them open to search
Reachable(f, path) ==
    {q \in DOMAIN f :
        /\ Len(q) > Len(Abs(path))
        /\ SubSeq(q, 1, Len(Abs(path))) = Abs(path)
        /\ f[q].kind # "dir"
        /\ Searchable(f, q)}

\* the size the walk records for a file: lstat's
WalkSize(f, q) == f[Abs(q)].size

\* the run was findDuplicateFiles and it printed its report
DupDone == last.op = "findDuplicateFiles" /\ dup.status = "ok"

\* the files findDuplicateFiles walked, from its buckets
DupWalkedFiles == UNION {Range(dup.bySize[k]) : k \in DOMAIN dup.bySize}

\* the groups it listed
Listed == Range(dup.listed)

-----------------------------------------------------------------------------
(* C4: for every duplicate group findDuplicateFiles emits, all members     *)
(* have the same size, and that size is the key of the size bucket the     *)
(* members were hashed from.                                               *)
C4_GroupOfOneBucket ==
    DupDone =>
        \A g \in Listed :
            \E k \in DOMAIN dup.bySize :
                \A q \in Range(g.files) :
                    q \in Range(dup.bySize[k]) /\ WalkSize(fs, q) = k

\* the files whose hash was computed, and those of them with the digest of q
Hashed == Range(dup.hashed) \ Range(dup.warned)

SameDigest(q) ==
    {r \in Hashed : CalculateMD5(fs, r).hash = CalculateMD5(fs, q).hash}

-----------------------------------------------------------------------------
(* C5: findDuplicateFiles never emits a group of fewer than 2 members: a   *)
(* digest only one hashed file has is never listed and adds nothing to the *)
(* group count or to the total wasted space.                               *)
C5_NoGroupBelowTwo ==
    DupDone =>
        /\ \A g \in Listed : Len(g.files) >= 2
        /\ \A q \in Hashed :
              Cardinality(SameDigest(q)) = 1 =>
                  \A g \in Listed : q \notin Range(g.files)
        /\ dup.count =
              Cardinality({SameDigest(q) : q \in
                             {q \in Hashed : Cardinality(SameDigest(q)) >= 2}})
        /\ dup.total = SumSeq([i \in 1..Len(dup.listed) |-> dup.listed[i].wasted])

\* a run that lists a group while another hashed file has a digest of its own
C5_Witness ==
    /\ DupDone
    /\ Listed # {}
    /\ \E q \in Hashed : Cardinality(SameDigest(q)) = 1

-----------------------------------------------------------------------------
(* C6: only buckets of at least 2 files and of a size above 0 are hashed:  *)
(* an empty file, or a file no other walked file has the size of, is never *)
(* hashed and is in no emitted group.                                      *)
C6_OnlyPromotedHashed ==
    DupDone =>
        \A q \in Range(dup.hashed) \cup UNION {Range(g.files) : g \in Listed} :
            /\ WalkSize(fs, q) > 0
            /\ \E r \in Reachable(fs, in.path) \ {Abs(q)} :
                  WalkSize(fs, r) = WalkSize(fs, q)

\* a run that hashes the files of one bucket and walks two empty files,
\* which it does not hash
C6_Witness ==
    /\ DupDone
    /\ dup.hashed # <<>>
    /\ \E q, r \in Reachable(fs, in.path) :
          /\ q # r /\ WalkSize(fs, q) = 0 /\ WalkSize(fs, r) = 0
          /\ q \notin Range(dup.hashed) /\ r \notin Range(dup.hashed)

-----------------------------------------------------------------------------
(* C7: for every emitted group of n members of size s the wasted space     *)
(* reported is s*(n-1), and the total reported is the sum over the emitted *)
(* groups.                                                                 *)
C7_WastedFormula ==
    DupDone =>
        /\ \A g \in Listed :
              LET s == WalkSize(fs, g.files[1])
              IN (\A q \in Range(g.files) : WalkSize(fs, q) = s)
                     => g.wasted = s * (Len(g.files) - 1)
        /\ dup.total = SumSeq([i \in 1..Len(dup.listed) |-> dup.listed[i].wasted])

-----------------------------------------------------------------------------
(* C1: in findDuplicateFiles and in analyzeDiskUsage, an entry below the   *)
(* root that cannot be accessed is skipped and the walk goes on over the   *)
(* remaining entries; the operation does not return an error for it.       *)
C1_WalkSkipsUnreadable ==
    ReadDirErr(fs, in.path) = Nil =>
        /\ last.op = "findDuplicateFiles" =>
              /\ dup.status = "ok"
              /\ Reachable(fs, in.path) \subseteq {Abs(q) : q \in DupWalkedFiles}
        /\ last.op = "analyzeDiskUsage" =>
              /\ usage.status = "ok"
              /\ Reachable(fs, in.path) \subseteq
                     {Abs(q) : q \in Range(usage.counted)}

-----------------------------------------------------------------------------
(* C2: each of findDuplicateFiles, analyzeDiskUsage and                    *)
(* provideCleanupAdvice returns an error, and prints no report, when the   *)
(* root path does not exist or cannot be read.                             *)
C2_RootErrorAborts ==
    ReadDirErr(fs, in.path) # Nil =>
        /\ last.op = "findDuplicateFiles" => dup.status = "error"
        /\ last.op = "analyzeDiskUsage" => usage.status = "error"
        /\ last.op = "provideCleanupAdvice" => advice.status = "error"

-----------------------------------------------------------------------------
(* C10: every file below the root, at any depth, that analyzeDiskUsage     *)
(* counts is also tried against the cleanup rules by provideCleanupAdvice  *)
(* run on the same root.                                                   *)
C10_CleanupSeesWhatUsageCounts ==
    (last.op = "provideCleanupAdvice" /\ advice.status = "ok") =>
        \A c \in Range(UsageWalk(last.fs, in.path)) :
            c.path \in {Abs(q) : q \in Range(advice.evaluated)}

-----------------------------------------------------------------------------
(* C8: after the walk of analyzeDiskUsage the per-extension totals and the *)
(* per-directory totals both sum to totalSize; only the files below the    *)
(* root are counted, each under one extension and under its immediate      *)
(* parent directory.                                                       *)
C8_Conservation ==
    (last.op = "analyzeDiskUsage" /\ usage.status = "ok") =>
        LET R  == Reachable(fs, in.path)
            sz == [q \in R |-> fs[q].size]
        IN /\ usage.total = SumOver(R, sz)
           /\ SumOver(DOMAIN usage.typeStats, usage.typeStats) = usage.total
           /\ SumOver(DOMAIN usage.dirStats, usage.dirStats) = usage.total
           /\ DOMAIN usage.dirStats = {Dir(q) : q \in R}
           /\ \A d \in DOMAIN usage.dirStats :
                 usage.dirStats[d] = SumOver({q \in R : Dir(q) = d}, sz)
           /\ DOMAIN usage.typeStats = {TypeKey(q) : q \in R}
           /\ \A k \in DOMAIN usage.typeStats :
                 usage.typeStats[k] = SumOver({q \in R : TypeKey(q) = k}, sz)

\* a run that counts files of two extensions in two directories, two of
\* them under one extension
C8_Witness ==
    /\ last.op = "analyzeDiskUsage" /\ usage.status = "ok"
    /\ usage.total > 0
    /\ Cardinality(DOMAIN usage.dirStats) >= 2
    /\ Cardinality(DOMAIN usage.typeStats) >= 2
    /\ Len(usage.counted) > Cardinality(DOMAIN usage.typeStats)

-----------------------------------------------------------------------------
(* C3: provideCleanupAdvice and deleteFile remove a file only when the     *)
(* answer to the confirmation prompt was "y" or "yes" in any case; on any  *)
(* other answer the filesystem is left as it was; provideCleanupAdvice     *)
(* removes only paths it listed as candidates in that run.                 *)

\* "y" and "yes" in every mix of cases
YesAnswers ==
    {<<a>> : a \in {"y", "Y"}}
    \cup {<<a, b, c>> : a \in {"y", "Y"}, b \in {"e", "E"}, c \in {"s", "S"}}

C3_DeleteOnlyConfirmed ==
    last.op \in {"provideCleanupAdvice", "deleteFile"} =>
        LET removed == DOMAIN last.fs \ DOMAIN fs
            answer  == IF last.op = "deleteFile" THEN del.response
                       ELSE advice.response
            asked   == IF last.op = "deleteFile" THEN del.asked
                       ELSE advice.asked
        IN /\ \A q \in DOMAIN fs : q \in DOMAIN last.fs /\ fs[q] = last.fs[q]
           /\ (~asked \/ answer \notin YesAnswers) => fs = last.fs
           /\ last.op = "provideCleanupAdvice" =>
                 removed \subseteq
                     {Abs(advice.candidates[i].path) :
                         i \in 1..Len(advice.candidates)}
           /\ last.op = "deleteFile" => removed \subseteq {Abs(in.file)}

\* a confirmed cleanup that removes a candidate and leaves another file of
\* the directory in place
C3_Witness ==
    /\ last.op = "provideCleanupAdvice"
    /\ advice.response \in YesAnswers
    /\ DOMAIN last.fs \ DOMAIN fs # {}
    /\ \E q \in DOMAIN fs : Dir(q) = PR /\ fs[q].kind = "file"

-----------------------------------------------------------------------------
(* C9: every cleanup candidate has one reason, that of the first rule it   *)
(* matches in the order Temporary, Log, Stale, Oversize; a file matching   *)
(* no rule is not a candidate.                                             *)
C9_FirstMatchWins ==
    (last.op = "provideCleanupAdvice" /\ advice.status = "ok") =>
        \A q \in Range(advice.evaluated) :
            LET e == last.fs[Abs(q)]
                T == isTempFile(Base(q))
                L == isLogFile(Base(q))
                S == Now - e.mtime > in.age * 24 * Hour /\ e.size > 0
                O == e.size > in.size * 1024 * 1024
                lines == {i \in 1..Len(advice.candidates) :
                             advice.candidates[i].path = q}
            IN /\ (T \/ L \/ S \/ O) <=> Cardinality(lines) = 1
               /\ ~(T \/ L \/ S \/ O) <=> lines = {}
               /\ \A i \in lines :
                     LET reason == advice.candidates[i].reason
                     IN /\ T => reason = "Temporary file"
                        /\ (~T /\ L) => reason = "Log file"
                        /\ (~T /\ ~L /\ S) => reason = "Not modified for days"
                        /\ (~T /\ ~L /\ ~S /\ O) => reason = "Large file"

\* a candidate that matches the Temporary and the Stale rule and is listed
\* as Temporary
C9_Witness ==
    /\ last.op = "provideCleanupAdvice" /\ advice.status = "ok"
    /\ \E i \in 1..Len(advice.candidates) :
          LET c == advice.candidates[i]
          IN /\ isTempFile(c.name)
             /\ Now - c.mtime > in.age * 24 * Hour /\ c.size > 0
             /\ c.reason = "Temporary file"

-----------------------------------------------------------------------------
\* a run of analyzeDiskUsage that printed its report
UsageDone ==
    last.op \in {"analyzeDiskUsage", "analyzeDiskUsageAgain"}
    /\ usage.status = "ok"

(* C11: analyzeDiskUsage run twice on an unmodified tree prints the same   *)
(* report both times: the same order of the extensions and of the          *)
(* directories, those of equal totals included, and the same directories   *)
(* among the ten listed.                                                   *)
C11_SameReportTwice ==
    (last.op = "analyzeDiskUsageAgain" /\ fs = last.fs) => usage = last.usage

-----------------------------------------------------------------------------
(* C15: the list by extension and the list by directory that               *)
(* analyzeDiskUsage prints are in non-increasing order of byte total: no   *)
(* entry comes after one of a strictly smaller total.                      *)
C15_ListsDescending ==
    UsageDone =>
        /\ \A i, j \in 1..Len(usage.typeLines) :
              i < j => usage.typeLines[i].size >= usage.typeLines[j].size
        /\ \A i, j \in 1..Len(usage.dirLines) :
              i < j => usage.dirLines[i].size >= usage.dirLines[j].size
        /\ \A i \in 1..Len(usage.typeLines) :
              /\ usage.typeLines[i].key \in DOMAIN usage.typeStats
              /\ usage.typeLines[i].size =
                     usage.typeStats[usage.typeLines[i].key]
        /\ Len(usage.typeLines) = Cardinality(DOMAIN usage.typeStats)

\* a report of three extensions and of ten directories, of totals that
\* differ
C15_Witness ==
    /\ UsageDone
    /\ Len(usage.typeLines) >= 3
    /\ usage.typeLines[1].size > usage.typeLines[3].size
    /\ Len(usage.dirLines) = TopDirs
    /\ usage.dirLines[1].size > usage.dirLines[TopDirs].size
    /\ \E i \in 1..(TopDirs - 1) :
          usage.dirLines[i].size = usage.dirLines[i + 1].size

-----------------------------------------------------------------------------
(* C16: analyzeDiskUsage prints at most 10 directories, those of the       *)
(* largest totals (all of them when there are 10 or fewer), and the total  *)
(* size it reports is the sum over all the files walked, those of the      *)
(* directories left out of the listing included.                           *)

\* the directories of dirStats that have a line in the listing
ListedDirs ==
    {d \in DOMAIN usage.dirStats :
        \E i \in 1..Len(usage.dirLines) :
            usage.dirLines[i] =
                [dir |-> RelLabel(Abs(in.path), d), size |-> usage.dirStats[d]]}

C16_TopTenOfAll ==
    UsageDone =>
        LET n == Cardinality(DOMAIN usage.dirStats)
            R == Reachable(fs, in.path)
        IN /\ Len(usage.dirLines) <= 10
           /\ Len(usage.dirLines) = IF n <= 10 THEN n ELSE 10
           /\ Cardinality(ListedDirs) = Len(usage.dirLines)
           /\ \A d \in ListedDirs :
                 \A e \in DOMAIN usage.dirStats \ ListedDirs :
                    usage.dirStats[d] >= usage.dirStats[e]
           /\ usage.total = SumOver(R, [q \in R |-> fs[q].size])

\* a report on a tree of more than ten directories: some are left out, and
\* the total is more than the sum of the lines
C16_Witness ==
    /\ UsageDone
    /\ Cardinality(DOMAIN usage.dirStats) > 10
    /\ Len(usage.dirLines) = 10
    /\ usage.total >
           SumSeq([i \in 1..Len(usage.dirLines) |-> usage.dirLines[i].size])

-----------------------------------------------------------------------------
\* a run of provideCleanupAdvice that read the directory
AdviceDone == last.op = "provideCleanupAdvice" /\ advice.status = "ok"

\* the lines of the candidate list for the file q
LinesOf(q) ==
    {i \in 1..Len(advice.candidates) : advice.candidates[i].path = q}

\* the files evaluated that are 50 MB large and were modified 10 days ago
FiftyMBTenDays ==
    {q \in Range(advice.evaluated) :
        /\ last.fs[Abs(q)].size = 50 * 1024 * 1024
        /\ Now - last.fs[Abs(q)].mtime = 10 * 24 * Hour}

(* C12 as stated: with an age threshold of 90 days and a size threshold of *)
(* 100 MB, a 50 MB file last modified 10 days ago is never listed as a     *)
(* cleanup candidate.                                                      *)
C12_FiftyMBNeverCandidate ==
    (AdviceDone /\ in.age = 90 /\ in.size = 100) =>
        \A q \in FiftyMBTenDays : LinesOf(q) = {}

(* C12 amended: with the thresholds 90 days and 100 MB, a 50 MB file last  *)
(* modified 10 days ago whose name matches neither the Temporary nor the   *)
(* Log pattern is never listed as a cleanup candidate.                     *)
C12_FiftyMBPlainNameNeverCandidate ==
    (AdviceDone /\ in.age = 90 /\ in.size = 100) =>
        \A q \in FiftyMBTenDays :
            (~isTempFile(Base(q)) /\ ~isLogFile(Base(q))) => LinesOf(q) = {}

\* a cleanup with the thresholds 90 and 100 that evaluated such a file of
\* a plain name and found nothing to recommend
C12_Witness ==
    /\ AdviceDone /\ in.age = 90 /\ in.size = 100
    /\ \E q \in FiftyMBTenDays : ~isTempFile(Base(q)) /\ ~isLogFile(Base(q))
    /\ advice.candidates = <<>> /\ ~advice.asked

-----------------------------------------------------------------------------
(* C13: a file of 0 bytes is never listed as Stale, whatever its age and   *)
(* the age threshold; when the size threshold is not negative, a file of 0 *)
(* bytes whose name matches neither the Temporary nor the Log pattern is   *)
(* not listed at all.                                                      *)
C13_EmptyNeverStale ==
    AdviceDone =>
        \A q \in Range(advice.evaluated) :
            last.fs[Abs(q)].size = 0 =>
                /\ \A i \in LinesOf(q) :
                      advice.candidates[i].reason # "Not modified for days"
                /\ (in.size >= 0 /\ ~isTempFile(Base(q)) /\ ~isLogFile(Base(q)))
                       => LinesOf(q) = {}

-----------------------------------------------------------------------------
(* C14: for every age threshold that is not negative, a file whose name    *)
(* matches neither the Temporary nor the Log pattern is listed as Stale if *)
(* and only if now - modifiedAt > ageThresholdDays*24h and its size is     *)
(* above 0.                                                                *)
C14_StaleIff ==
    (AdviceDone /\ in.age >= 0) =>
        \A q \in Range(advice.evaluated) :
            (~isTempFile(Base(q)) /\ ~isLogFile(Base(q))) =>
                ((\E i \in LinesOf(q) :
                     advice.candidates[i].reason = "Not modified for days")
                 <=> (/\ Now - last.fs[Abs(q)].mtime > in.age * 24 * Hour
                      /\ last.fs[Abs(q)].size > 0))

-----------------------------------------------------------------------------
\* the files findDuplicateFiles put into filesBySize, in the order the walk
\* visited them
Discovered ==
    LET w == DupWalked(Walk(fs, in.path, [e \in Errs |-> DupWalkFn(e)]).calls)
    IN [i \in 1..Len(w) |-> w[i].path]

\* the place of q in that order
DiscoveryIndex(q) == CHOOSE i \in 1..Len(Discovered) : Discovered[i] = q

(* C17: within every group findDuplicateFiles emits, the members are       *)
(* listed in the order the walk visited them, whatever the order in which  *)
(* the size buckets were ranged over.                                      *)
C17_DiscoveryOrder ==
    DupDone =>
        \A g \in Listed :
            \A i, j \in 1..Len(g.files) :
                i < j => DiscoveryIndex(g.files[i]) < DiscoveryIndex(g.files[j])

-----------------------------------------------------------------------------
\* the files of the hashed buckets that cannot be opened for reading
Unreadable ==
    {q \in DupWalkedFiles :
        /\ \E k \in DOMAIN dup.bySize :
              q \in Range(dup.bySize[k]) /\ Len(dup.bySize[k]) > 1 /\ k > 0
        /\ OpenErr(fs, q) # Nil}

(* C18: in findDuplicateFiles a file that cannot be read when it is hashed *)
(* is skipped with a warning and the run goes on: the other files of its   *)
(* bucket and of the other buckets are hashed all the same, the skipped    *)
(* file is in no emitted group and no group's wasted space counts it.      *)
C18_HashErrorSkipped ==
    DupDone =>
        /\ Range(dup.warned) = Unreadable
        /\ \A k \in DOMAIN dup.bySize :
              (Len(dup.bySize[k]) > 1 /\ k > 0) =>
                  Range(dup.bySize[k]) \subseteq Range(dup.hashed)
        /\ dup.count = Cardinality({SameDigest(q) : q \in
                          {q \in Hashed : Cardinality(SameDigest(q)) > 1}})
        /\ \A g \in Listed :
              /\ Range(g.files) \cap Unreadable = {}
              /\ Range(g.files) = SameDigest(g.files[1])
              /\ g.wasted =
                     Stat(fs, g.files[1]).size
                         * (Cardinality(Range(g.files) \ Unreadable) - 1)

\* a run that warned of two files it could not read and listed a group of
\* files of the bucket of one of them
C18_Witness ==
    /\ DupDone
    /\ Len(dup.warned) >= 2
    /\ \E g \in Listed : \E k \in DOMAIN dup.bySize :
          /\ Range(g.files) \subseteq Range(dup.bySize[k])
          /\ Range(dup.warned) \cap Range(dup.bySize[k]) # {}

-----------------------------------------------------------------------------
(* C19: the number of groups findDuplicateFiles reports as found is the    *)
(* number of groups it listed and added to the total wasted space: a group *)
(* whose first member cannot be stat'ed when the groups are displayed is   *)
(* not counted and not reported as found.                                  *)
C19_CountIsListed ==
    DupDone =>
        /\ dup.count = Len(dup.listed)
        /\ dup.listed = <<>> => dup.summary = "No duplicate files found."

-----------------------------------------------------------------------------
(* C20: from a list of monitored directories without duplicates, no        *)
(* sequence of addDirectory and removeDirectory calls puts a path into the *)
(* list twice; adding a path that is in the list leaves the list and the   *)
(* config file as they were; removeDirectory with a choice <= 0 or above   *)
(* the length of the list leaves the list as it was, and with any other    *)
(* choice removes that entry alone and keeps the order of the others.      *)
C20_NoDuplicateDirs ==
    /\ \A i, j \in 1..Len(MonitoredDirs) :
          MonitoredDirs[i] = MonitoredDirs[j] => i = j
    /\ (last.op = "addDirectory" /\ Abs(last.path) \in Range(last.dirs)) =>
          MonitoredDirs = last.dirs /\ configFile = last.file
    /\ last.op = "removeDirectory" =>
          IF last.choice <= 0 \/ last.choice > Len(last.dirs)
          THEN MonitoredDirs = last.dirs
          ELSE /\ Len(MonitoredDirs) = Len(last.dirs) - 1
               /\ \A i \in 1..Len(MonitoredDirs) :
                     MonitoredDirs[i] =
                         IF i < last.choice THEN last.dirs[i]
                         ELSE last.dirs[i + 1]

\* a list of three directories the second of which has just been removed,
\* after a directory was added by its relative path
C20_Witness ==
    /\ last.op = "removeDirectory"
    /\ Len(last.dirs) = 3 /\ last.choice = 2
    /\ MonitoredDirs = <<last.dirs[1], last.dirs[3]>>
    /\ last.dirs[3] = PR

-----------------------------------------------------------------------------
(* C21: an addDirectory or removeDirectory call that returns an error      *)
(* leaves the list of monitored directories in memory as it was before the *)
(* call, also when the error is that of saveConfig failing to write the    *)
(* config file.                                                            *)
C21_ErrorLeavesList ==
    (last.op \in {"addDirectory", "removeDirectory"} /\ last.err # Nil) =>
        MonitoredDirs = last.dirs

=============================================================================
